---- MODULE Spec2Model ----
(***************************************************************************)
(* commitaura (src/src/main.rs): the commit task (handle_commit) and the   *)
(* push task (handle_push) as one sequential process, with every VCS       *)
(* invocation, completion request and user prompt recorded in order.       *)
(*                                                                         *)
(* Texts are sequences of bytes.  A byte is written as a one-character     *)
(* string; "H" and "L" are the lead and the continuation byte of a         *)
(* two-byte UTF-8 character, and the upper-case words used in the prompt   *)
(* templates stand for the fixed sentences of the source.  Token counts    *)
(* are scaled: MAX_TOKENS is 6 here and 128000 in the source, and the      *)
(* tokenizer is byte-pair encoding over a three-entry merge table instead  *)
(* of the p50k_base table.                                                 *)
(***************************************************************************)
EXTENDS Integers, Sequences, FiniteSets, TLC

\* ------------------------------------------------------------------ bounds
MaxDiffLen == 3
MaxLogLen == 2
MaxCompletionLen == 3
MaxUnpushed == 3

\* --------------------------------------------------------------- constants
MAX_TOKENS == 6

\* usize arithmetic wraps modulo this in a build without overflow checks
\* (2^64 in the source; scaled like MAX_TOKENS).
USIZE_MODULUS == 2 ^ 16

\* ---------------------------------------------------------- text utilities
Whitespace == {" ", "\n"}

SetMin(S) == CHOOSE x \in S : \A y \in S : x <= y
SetMax(S) == CHOOSE x \in S : \A y \in S : x >= y

\* all sequences over S of length 0..n
SeqsUpTo(S, n) == UNION {[1..k -> S] : k \in 0..n}

\* str::trim: strips leading and trailing whitespace
Trim(s) ==
    LET keep == {i \in 1..Len(s) : s[i] \notin Whitespace}
    IN IF keep = {} THEN <<>> ELSE SubSeq(s, SetMin(keep), SetMax(keep))

\* String::from_utf8 succeeds iff the bytes are well-formed
ValidUtf8(bytes) ==
    \A i \in 1..Len(bytes) :
        /\ bytes[i] = "H" => (i < Len(bytes) /\ bytes[i + 1] = "L")
        /\ bytes[i] = "L" => (i > 1 /\ bytes[i - 1] = "H")

\* str::lines: split at "\n"; a final empty line is not produced
RECURSIVE Lines(_)
Lines(s) ==
    IF s = <<>> THEN <<>>
    ELSE LET nl == {i \in 1..Len(s) : s[i] = "\n"}
         IN IF nl = {} THEN <<s>>
            ELSE LET k == SetMin(nl)
                 IN <<SubSeq(s, 1, k - 1)>> \o Lines(SubSeq(s, k + 1, Len(s)))

\* [&str]::join("\n")
RECURSIVE JoinLines(_)
JoinLines(ls) ==
    IF ls = <<>> THEN <<>>
    ELSE IF Len(ls) = 1 THEN ls[1]
    ELSE ls[1] \o <<"\n">> \o JoinLines(Tail(ls))

\* ------------------------------------------------------------- tokenizer
\* The ranked merge table of the encoding (lower index merges first).  No
\* entry has whitespace on its right, as the encoder's word splitting never
\* lets a merge run from a word into the following whitespace.
Merges ==
    << << <<"a">>, <<"a">> >>,
       << <<" ">>, <<"a">> >>,
       << <<"a", "a">>, <<"a">> >> >>

Rank(l, r) ==
    LET hit == {k \in 1..Len(Merges) : Merges[k] = <<l, r>>}
    IN IF hit = {} THEN 0 ELSE SetMin(hit)

\* byte-pair merge: repeatedly merge the adjacent pair of lowest rank
\* (leftmost among equals) until no adjacent pair is in the table
RECURSIVE BytePairMerge(_)
BytePairMerge(parts) ==
    LET idx == {i \in 1..(Len(parts) - 1) : Rank(parts[i], parts[i + 1]) > 0}
    IN IF idx = {} THEN parts
       ELSE LET best == CHOOSE i \in idx : \A j \in idx :
                            \/ Rank(parts[i], parts[i + 1]) < Rank(parts[j], parts[j + 1])
                            \/ /\ Rank(parts[i], parts[i + 1]) = Rank(parts[j], parts[j + 1])
                               /\ i <= j
            IN BytePairMerge(SubSeq(parts, 1, best - 1)
                             \o <<parts[best] \o parts[best + 1]>>
                             \o SubSeq(parts, best + 2, Len(parts)))

\* bpe.encode_with_special_tokens(text): the token sequence of a text
Encode(text) == BytePairMerge([i \in 1..Len(text) |-> <<text[i]>>])

\* the bytes of a token sequence
RECURSIVE DecodeBytes(_)
DecodeBytes(tokens) ==
    IF tokens = <<>> THEN <<>> ELSE Head(tokens) \o DecodeBytes(Tail(tokens))

\* bpe.decode(tokens): Err when the bytes are not UTF-8
Decode(tokens) ==
    LET bytes == DecodeBytes(tokens)
    IN IF ValidUtf8(bytes) THEN [ok |-> TRUE, text |-> bytes]
       ELSE [ok |-> FALSE, text |-> <<>>]

\* estimate_tokens, lines 240-244.  p50k_base() builds the encoder from a
\* table compiled into the binary, so its Err branch is not taken.
estimate_tokens(text) == Len(Encode(text))

\* ------------------------------------------------------- prompt templates
\* system message of the commit task (lines 168-169 and 205)
system_message == <<"SYSTEM">>

\* the instruction prompt whose tokens are counted (lines 170-173): "WRITE"
\* is the sentence "Write a concise ... commit message).", "NOREPEAT" is
\* " Do not use the same word at the beginning of every commit message.",
\* "SPECIFIC" is " Be extremely specific. ... Last 5 commit messages:\n" and
\* "CHANGES" is "\n\nCurrent changes:\n".
prompt(commits) == <<"WRITE", "NOREPEAT", "SPECIFIC">> \o commits \o <<"CHANGES">>

\* the user message that is sent (lines 209-212)
user_content(commits, d) == <<"WRITE", "SPECIFIC">> \o commits \o <<"CHANGES">> \o d

\* system message and user message of the push task (lines 329-332, 349)
push_system_message == <<"PUSHSYSTEM">>
push_prompt(unpushed) == <<"BASED">> \o unpushed

\* ------------------------------------------------------------- truncation
\* usize subtraction: with overflow checks a negative result panics,
\* without them it wraps
UsizeSub(a, b) == (a - b) % USIZE_MODULUS

\* the slice taken one token too long
truncated_tokens_inclusive(tokens, available_tokens) ==
    SubSeq(tokens, 1, available_tokens + 1)

\* the slice taken from the wrong side of the bound
truncated_tokens_tail(tokens, available_tokens) ==
    SubSeq(tokens, available_tokens + 1, Len(tokens))

\* line 184: tokens[..available_tokens]
truncated_tokens(tokens, available_tokens) == SubSeq(tokens, 1, available_tokens)

\* the prompt's tokens not subtracted
available_without_prompt(system_tokens, prompt_tokens) ==
    UsizeSub(MAX_TOKENS, system_tokens)

\* line 181: MAX_TOKENS - system_tokens - prompt_tokens
available(system_tokens, prompt_tokens) ==
    UsizeSub(UsizeSub(MAX_TOKENS, system_tokens), prompt_tokens)

\* lines 175-188 of generate_commit_message: the token estimates, the test
\* against MAX_TOKENS and the truncation of the diff to available_tokens
\* tokens.  checks is whether the build has overflow checks.
TruncateDiff(d, system_tokens, prompt_tokens, checks) ==
    LET diff_tokens == estimate_tokens(d)
        estimated_tokens == system_tokens + prompt_tokens + diff_tokens
        available_tokens == available(system_tokens, prompt_tokens)
        tokens == Encode(d)
        decoded == Decode(truncated_tokens(tokens, available_tokens))
    IN IF estimated_tokens > MAX_TOKENS
       THEN IF checks /\ MAX_TOKENS - system_tokens - prompt_tokens < 0
            THEN [status |-> "panic", text |-> <<>>, truncated |-> FALSE,
                  detail |-> "attempt to subtract with overflow"]
            ELSE IF available_tokens > Len(tokens)
            THEN [status |-> "panic", text |-> <<>>, truncated |-> FALSE,
                  detail |-> "range end index out of range for slice"]
            ELSE IF ~decoded.ok
            THEN [status |-> "err", text |-> <<>>, truncated |-> FALSE,
                  detail |-> "decode"]
            ELSE [status |-> "ok", text |-> decoded.text, truncated |-> TRUE,
                  detail |-> ""]
       ELSE [status |-> "ok", text |-> d, truncated |-> FALSE, detail |-> ""]

\* ------------------------------------------------------------------ state
VARIABLES
    pc,                \* the statement the process is at
    task,              \* "none", "commit" or "push" (cli.command)
    api_key_set,       \* whether OPENAI_API_KEY is in the environment
    outcome,           \* what main returned, or that it is still running
    vcs,               \* the git invocations made, in order
    requests,          \* the chat completion requests made, in order
    prompts,           \* the confirmation prompts shown, with the answers
    reports,           \* the final messages printed
    last_commits,      \* handle_commit: last_commits
    diff,              \* generate_commit_message: diff
    budget,            \* generate_commit_message: the token estimates
    commit_message,    \* handle_commit: commit_message
    unpushed_commits,  \* handle_push: unpushed_commits
    branch_name,       \* handle_push: branch_name
    pr_description,    \* handle_push: pr_description
    fit_pc,            \* truncation applied on its own: position
    fit_in,            \* its input: text and the fixed token costs
    fit_once,          \* result of one application
    fit_twice          \* result of applying it to that result

taskVars == <<pc, task, api_key_set, outcome, vcs, requests, prompts, reports,
              last_commits, diff, budget, commit_message, unpushed_commits,
              branch_name, pr_description>>
fitVars == <<fit_pc, fit_in, fit_once, fit_twice>>
vars == <<taskVars, fitVars>>

\* ---------------------------------------------------------------- outcomes
Running == [status |-> "running", kind |-> "", detail |-> ""]
Success == [status |-> "ok", kind |-> "", detail |-> ""]
Fail(kind, detail) == [status |-> "err", kind |-> kind, detail |-> detail]
Panic(detail) == [status |-> "panic", kind |-> "", detail |-> detail]

\* position of the next event in the order of all recorded events
Now == Len(vcs) + Len(requests) + Len(prompts) + Len(reports) + 1

\* ------------------------------------------------------------ environment
\* what a launched git process can print
DiffOutputs == SeqsUpTo({"a", " ", "H", "L"}, MaxDiffLen)
LogOutputs == SeqsUpTo({"a", "\n"}, MaxLogLen) \cup {<<"L">>}
\* "git log @{u}.. --pretty=format:%s": up to MaxUnpushed subjects, each
\* empty or "a", separated by newlines
UnpushedOutputs ==
    {JoinLines(subjects) : subjects \in SeqsUpTo({<<>>, <<"a">>}, MaxUnpushed)}
    \cup {<<"L">>}
\* "main", "master" and "dev" each stand for the bytes of that word
BranchOutputs == {<<"main", "\n">>, <<"master", "\n">>, <<"main">>, <<"dev", "\n">>,
                  <<"main", "x", "\n">>, <<>>, <<"L">>}
CompletionTexts == SeqsUpTo({"x", " ", "\n"}, MaxCompletionLen)

\* a process::Command run: not launched, or launched with an exit code and
\* its standard output
Runs(outputs) ==
    {[launched |-> FALSE, code |-> -1, stdout |-> <<>>]}
    \cup {[launched |-> TRUE, code |-> c, stdout |-> o] : c \in {0, 1}, o \in outputs}

\* what chat_completion_create can return
Responses ==
    {[transport_ok |-> FALSE, choices |-> <<>>]}
    \cup {[transport_ok |-> TRUE, choices |-> <<>>]}
    \cup {[transport_ok |-> TRUE, choices |-> <<[has_message |-> FALSE, content |-> <<>>]>>]}
    \cup {[transport_ok |-> TRUE, choices |-> <<[has_message |-> TRUE, content |-> t]>>] :
             t \in CompletionTexts}

Invocation(cmd, arg, run) ==
    [cmd |-> cmd, arg |-> arg, launched |-> run.launched, code |-> run.code,
     stdout |-> run.stdout, at |-> Now]

\* ------------------------------------------------------------------- init
TaskIdle ==
    /\ task = "none"
    /\ outcome = Running
    /\ vcs = <<>>
    /\ requests = <<>>
    /\ prompts = <<>>
    /\ reports = <<>>
    /\ last_commits = <<>>
    /\ diff = <<>>
    /\ budget = [ran |-> FALSE, system_tokens |-> 0, prompt_tokens |-> 0,
                 diff_tokens |-> 0, truncated |-> FALSE]
    /\ commit_message = <<>>
    /\ unpushed_commits = <<>>
    /\ branch_name = <<>>
    /\ pr_description = <<>>

TaskInit ==
    /\ pc = "main"
    /\ api_key_set \in BOOLEAN
    /\ TaskIdle

FitIdle ==
    /\ fit_pc = "idle"
    /\ fit_in = [text |-> <<>>, system_tokens |-> 0, prompt_tokens |-> 0, checks |-> FALSE]
    /\ fit_once = [status |-> "none", text |-> <<>>, truncated |-> FALSE, detail |-> ""]
    /\ fit_twice = [status |-> "none", text |-> <<>>, truncated |-> FALSE, detail |-> ""]

Init == TaskInit /\ FitIdle

\* the result recorded without returning from the handler
Finish_without_return(r) == /\ outcome' = r
                            /\ pc' = pc

\* a step that ends the run with result r
Finish(r) == /\ outcome' = r
             /\ pc' = "done"

\* ------------------------------------------------------------------- main
\* a missing credential replaced by a default
auth_from_env_defaulted(key_set) == TRUE

\* lines 60-61: Auth::from_env() is Ok iff the variable is set
auth_from_env(key_set) == key_set

\* main, lines 56-72: the credential, then the subcommand (no subcommand
\* runs the commit task)
Main ==
    /\ pc = "main"
    /\ \E command \in {"Commit", "Push", "None"} :
         IF ~auth_from_env(api_key_set)
         THEN /\ Finish(Fail("EnvVarNotSet", "OPENAI_API_KEY"))
              /\ UNCHANGED task
         ELSE /\ task' = IF command = "Push" THEN "push" ELSE "commit"
              /\ pc' = IF command = "Push" THEN "handle_push" ELSE "handle_commit"
              /\ UNCHANGED outcome
    /\ UNCHANGED <<api_key_set, vcs, requests, prompts, reports, last_commits, diff,
                   budget, commit_message, unpushed_commits, branch_name, pr_description>>
    /\ UNCHANGED fitVars

\* ------------------------------------------------------------ commit task
\* handle_commit, line 75: term.clear_screen()?  The spinner template of
\* line 80 is a valid constant, so its TemplateError is not taken.
HandleCommit ==
    /\ pc = "handle_commit"
    /\ \E cleared \in BOOLEAN :
         IF cleared
         THEN pc' = "check_staged_changes" /\ UNCHANGED outcome
         ELSE Finish(Fail("IoError", "clear_screen"))
    /\ UNCHANGED <<task, api_key_set, vcs, requests, prompts, reports, last_commits,
                   diff, budget, commit_message, unpushed_commits, branch_name,
                   pr_description>>
    /\ UNCHANGED fitVars

\* line 123: output.success() of "git diff --staged --quiet"
reports_no_changes(run) == run.code = 0

\* check_staged_changes, lines 117-128
check_staged_changes ==
    /\ pc = "check_staged_changes"
    /\ \E run \in Runs({<<>>}) :
         /\ vcs' = Append(vcs, Invocation("diff --staged --quiet", <<>>, run))
         /\ IF ~run.launched THEN Finish(Fail("GitOperationFailed", "launch"))
            ELSE IF reports_no_changes(run) THEN Finish(Fail("NoStagedChanges", ""))
            ELSE pc' = "get_last_commit_messages" /\ UNCHANGED outcome
    /\ UNCHANGED <<task, api_key_set, requests, prompts, reports, last_commits, diff,
                   budget, commit_message, unpushed_commits, branch_name, pr_description>>
    /\ UNCHANGED fitVars

\* get_last_commit_messages, lines 145-152: the exit status is not read
get_last_commit_messages ==
    /\ pc = "get_last_commit_messages"
    /\ \E run \in Runs(LogOutputs) :
         /\ vcs' = Append(vcs, Invocation("log -5", <<>>, run))
         /\ IF ~run.launched
            THEN Finish(Fail("GitOperationFailed", "launch")) /\ UNCHANGED last_commits
            ELSE IF ~ValidUtf8(run.stdout)
            THEN Finish(Fail("GitOperationFailed", "utf8")) /\ UNCHANGED last_commits
            ELSE /\ last_commits' = run.stdout
                 /\ pc' = "generate_commit_message"
                 /\ UNCHANGED outcome
    /\ UNCHANGED <<task, api_key_set, requests, prompts, reports, diff, budget,
                   commit_message, unpushed_commits, branch_name, pr_description>>
    /\ UNCHANGED fitVars

\* the emptiness test without the trim
diff_is_empty_untrimmed(d) == d = <<>>

\* line 163: diff.trim().is_empty()
diff_is_empty(d) == Trim(d) = <<>>

\* generate_commit_message, lines 155-165: the staged diff
StagedDiff ==
    /\ pc = "generate_commit_message"
    /\ \E run \in Runs(DiffOutputs) :
         /\ vcs' = Append(vcs, Invocation("diff --staged", <<>>, run))
         /\ IF ~run.launched
            THEN Finish(Fail("GitOperationFailed", "launch")) /\ UNCHANGED diff
            ELSE IF ~ValidUtf8(run.stdout)
            THEN Finish(Fail("GitOperationFailed", "utf8")) /\ UNCHANGED diff
            ELSE IF diff_is_empty(run.stdout)
            THEN Finish(Fail("NoStagedChanges", "")) /\ UNCHANGED diff
            ELSE /\ diff' = run.stdout
                 /\ pc' = "budget"
                 /\ UNCHANGED outcome
    /\ UNCHANGED <<task, api_key_set, requests, prompts, reports, last_commits,
                   budget, commit_message, unpushed_commits, branch_name, pr_description>>
    /\ UNCHANGED fitVars

\* generate_commit_message, lines 167-188: estimates and truncation
BudgetTokens ==
    /\ pc = "budget"
    \* the build either panics on integer overflow or wraps
    /\ \E overflow_checks \in BOOLEAN :
       LET system_tokens == estimate_tokens(system_message)
           prompt_tokens == estimate_tokens(prompt(last_commits))
           r == TruncateDiff(diff, system_tokens, prompt_tokens, overflow_checks)
       IN /\ budget' = [ran |-> TRUE, system_tokens |-> system_tokens,
                        prompt_tokens |-> prompt_tokens,
                        diff_tokens |-> estimate_tokens(diff),
                        truncated |-> r.truncated]
          /\ IF r.status = "panic" THEN Finish(Panic(r.detail)) /\ UNCHANGED diff
             ELSE IF r.status = "err"
             THEN Finish(Fail("TokenizerError", r.detail)) /\ UNCHANGED diff
             ELSE /\ diff' = r.text
                  /\ pc' = "chat_completion"
                  /\ UNCHANGED outcome
    /\ UNCHANGED <<task, api_key_set, vcs, requests, prompts, reports, last_commits,
                   commit_message, unpushed_commits, branch_name, pr_description>>
    /\ UNCHANGED fitVars

\* the failed call made again
completion_error_retried(r) == /\ pc' = pc
                               /\ outcome' = outcome

\* lines 219 and 360: .map_err(..)? returns the error of the call
completion_error(r) == Finish(r)

\* the content taken without the trim
untrimmed_content(content) == content

\* line 228: message.content.trim().to_string()
trimmed_content(content) == Trim(content)

\* generate_commit_message, lines 190-237: the request and its response
CommitCompletion ==
    /\ pc = "chat_completion"
    /\ \E rs \in Responses :
       /\ requests' = Append(requests,
                             [task |-> "commit", system |-> system_message,
                              user |-> user_content(last_commits, diff),
                              max_tokens |-> 100, response |-> rs, at |-> Now])
       /\ IF ~rs.transport_ok
         THEN completion_error(Fail("OpenAIError", "transport")) /\ UNCHANGED commit_message
         ELSE IF rs.choices = <<>>
         THEN Finish(Panic("index out of bounds")) /\ UNCHANGED commit_message
         ELSE IF ~rs.choices[1].has_message
         THEN /\ Finish(Fail("ApiRequestFailed", "No message in API response"))
              /\ UNCHANGED commit_message
         ELSE IF trimmed_content(rs.choices[1].content) = <<>>
         THEN /\ Finish(Fail("ApiRequestFailed", "Received empty commit message from LLM."))
              /\ UNCHANGED commit_message
         ELSE /\ commit_message' = trimmed_content(rs.choices[1].content)
              /\ pc' = "confirm"
              /\ UNCHANGED outcome
    /\ UNCHANGED <<task, api_key_set, vcs, prompts, reports, last_commits, diff,
                   budget, unpushed_commits, branch_name, pr_description>>
    /\ UNCHANGED fitVars

\* the answer not looked at
proceeds_always(answer) == TRUE

\* lines 101-105: the value of Confirm::interact() that lets the commit run
proceeds(answer) == answer = "yes"

\* handle_commit, lines 101-112: the confirmation
ConfirmCommit ==
    /\ pc = "confirm"
    /\ \E answer \in {"yes", "no", "error"} :
         /\ prompts' = Append(prompts,
                              [prompt |-> "Do you want to proceed with this commit message?",
                               answer |-> answer, at |-> Now])
         /\ IF answer = "error"
            THEN Finish(Fail("DialoguerError", "interact")) /\ UNCHANGED reports
            ELSE IF proceeds(answer)
            THEN pc' = "perform_git_commit" /\ UNCHANGED <<outcome, reports>>
            ELSE /\ reports' = Append(reports, [text |-> "Commit cancelled.", at |-> Now + 1])
                 /\ Finish(Success)
    /\ UNCHANGED <<task, api_key_set, vcs, requests, last_commits, diff, budget,
                   commit_message, unpushed_commits, branch_name, pr_description>>
    /\ UNCHANGED fitVars

\* perform_git_commit, lines 130-143, and line 109
perform_git_commit ==
    /\ pc = "perform_git_commit"
    /\ \E run \in Runs({<<>>}) :
         /\ vcs' = Append(vcs, Invocation("commit -m", commit_message, run))
         /\ IF ~run.launched
            THEN Finish(Fail("GitOperationFailed", "launch")) /\ UNCHANGED reports
            ELSE IF run.code # 0
            THEN Finish(Fail("GitOperationFailed", "Git commit failed")) /\ UNCHANGED reports
            ELSE /\ reports' = Append(reports, [text |-> "Commit successful!", at |-> Now + 1])
                 /\ Finish(Success)
    /\ UNCHANGED <<task, api_key_set, requests, prompts, last_commits, diff, budget,
                   commit_message, unpushed_commits, branch_name, pr_description>>
    /\ UNCHANGED fitVars

\* -------------------------------------------------------------- push task
\* handle_push, line 261: term.clear_screen()?
HandlePush ==
    /\ pc = "handle_push"
    /\ \E cleared \in BOOLEAN :
         IF cleared
         THEN pc' = "check_master_branch" /\ UNCHANGED outcome
         ELSE Finish(Fail("IoError", "clear_screen"))
    /\ UNCHANGED <<task, api_key_set, vcs, requests, prompts, reports, last_commits,
                   diff, budget, commit_message, unpushed_commits, branch_name,
                   pr_description>>
    /\ UNCHANGED fitVars

\* the branch compared by prefix
is_trunk_prefix(current_branch) ==
    /\ current_branch # <<>>
    /\ current_branch[1] \in {"master", "main"}

\* line 307: the branches the push task may start from
is_trunk(current_branch) == current_branch = <<"master">> \/ current_branch = <<"main">>

\* check_master_branch, lines 296-314: the exit status is not read
check_master_branch ==
    /\ pc = "check_master_branch"
    /\ \E run \in Runs(BranchOutputs) :
         /\ vcs' = Append(vcs, Invocation("rev-parse --abbrev-ref HEAD", <<>>, run))
         /\ IF ~run.launched THEN Finish(Fail("GitOperationFailed", "launch"))
            ELSE IF ~ValidUtf8(run.stdout) THEN Finish(Fail("GitOperationFailed", "utf8"))
            ELSE IF ~is_trunk(Trim(run.stdout))
            THEN Finish(Fail("GitOperationFailed", "Not on master/main branch"))
            ELSE pc' = "get_unpushed_commits" /\ UNCHANGED outcome
    /\ UNCHANGED <<task, api_key_set, requests, prompts, reports, last_commits, diff,
                   budget, commit_message, unpushed_commits, branch_name, pr_description>>
    /\ UNCHANGED fitVars

\* the test left out
unpushed_is_empty_never(unpushed) == FALSE

\* line 276: unpushed_commits.is_empty()
unpushed_is_empty(unpushed) == unpushed = <<>>

\* get_unpushed_commits, lines 316-323, and handle_push, lines 276-280
get_unpushed_commits ==
    /\ pc = "get_unpushed_commits"
    /\ \E run \in Runs(UnpushedOutputs) :
         /\ vcs' = Append(vcs, Invocation("log @{u}..", <<>>, run))
         /\ IF ~run.launched
            THEN Finish(Fail("GitOperationFailed", "launch")) /\ UNCHANGED unpushed_commits
            ELSE IF ~ValidUtf8(run.stdout)
            THEN Finish(Fail("GitOperationFailed", "utf8")) /\ UNCHANGED unpushed_commits
            ELSE IF unpushed_is_empty(run.stdout)
            THEN /\ Finish(Fail("GitOperationFailed", "No unpushed commits found"))
                 /\ UNCHANGED unpushed_commits
            ELSE /\ unpushed_commits' = run.stdout
                 /\ pc' = "generate_branch_and_pr"
                 /\ UNCHANGED outcome
    /\ UNCHANGED <<task, api_key_set, requests, prompts, reports, last_commits, diff,
                   budget, commit_message, branch_name, pr_description>>
    /\ UNCHANGED fitVars

\* the lines taken without the trim
content_lines_untrimmed(content) == Lines(content)

\* lines 370-371: message.content.trim() and its lines()
content_lines(content) == Lines(Trim(content))

\* generate_branch_and_pr, lines 325-382
generate_branch_and_pr ==
    /\ pc = "generate_branch_and_pr"
    /\ \E rs \in Responses :
       /\ requests' = Append(requests,
                             [task |-> "push", system |-> push_system_message,
                              user |-> push_prompt(unpushed_commits),
                              max_tokens |-> 200, response |-> rs, at |-> Now])
       /\ IF ~rs.transport_ok
         THEN /\ completion_error(Fail("OpenAIError", "transport"))
              /\ UNCHANGED <<branch_name, pr_description>>
         ELSE IF rs.choices = <<>>
         THEN /\ Finish(Panic("index out of bounds"))
              /\ UNCHANGED <<branch_name, pr_description>>
         ELSE IF ~rs.choices[1].has_message
         THEN /\ Finish(Fail("ApiRequestFailed", "No message in API response"))
              /\ UNCHANGED <<branch_name, pr_description>>
         ELSE LET lines == content_lines(rs.choices[1].content)
              IN IF lines = <<>>
                 THEN /\ Finish(Fail("ApiRequestFailed", "No branch name generated"))
                      /\ UNCHANGED <<branch_name, pr_description>>
                 ELSE /\ branch_name' = Trim(Head(lines))
                      /\ pr_description' = JoinLines(Tail(lines))
                      /\ pc' = "checkout"
                      /\ UNCHANGED outcome
    /\ UNCHANGED <<task, api_key_set, vcs, prompts, reports, last_commits, diff,
                   budget, commit_message, unpushed_commits>>
    /\ UNCHANGED fitVars

\* create_and_push_branch, lines 385-388: the exit status is not read
CheckoutBranch ==
    /\ pc = "checkout"
    /\ \E run \in Runs({<<>>}) :
         /\ vcs' = Append(vcs, Invocation("checkout -b", branch_name, run))
         /\ IF ~run.launched THEN Finish(Fail("GitOperationFailed", "launch"))
            ELSE pc' = "push" /\ UNCHANGED outcome
    /\ UNCHANGED <<task, api_key_set, requests, prompts, reports, last_commits, diff,
                   budget, commit_message, unpushed_commits, branch_name, pr_description>>
    /\ UNCHANGED fitVars

\* create_and_push_branch, lines 390-395: the exit status is not read
PushBranch ==
    /\ pc = "push"
    /\ \E run \in Runs({<<>>}) :
         /\ vcs' = Append(vcs, Invocation("push -u origin", branch_name, run))
         /\ IF ~run.launched THEN Finish(Fail("GitOperationFailed", "launch"))
            ELSE pc' = "create_pull_request" /\ UNCHANGED outcome
    /\ UNCHANGED <<task, api_key_set, requests, prompts, reports, last_commits, diff,
                   budget, commit_message, unpushed_commits, branch_name, pr_description>>
    /\ UNCHANGED fitVars

\* create_pull_request, lines 398-405, and handle_push, lines 291-293
create_pull_request ==
    /\ pc = "create_pull_request"
    /\ reports' = Append(reports, [text |-> "Push and PR creation successful!", at |-> Now])
    /\ Finish(Success)
    /\ UNCHANGED <<task, api_key_set, vcs, requests, prompts, last_commits, diff,
                   budget, commit_message, unpushed_commits, branch_name, pr_description>>
    /\ UNCHANGED fitVars

\* ---------------------------------------------------------- specification
Next ==
    \/ Main
    \/ HandleCommit
    \/ check_staged_changes
    \/ get_last_commit_messages
    \/ StagedDiff
    \/ BudgetTokens
    \/ CommitCompletion
    \/ ConfirmCommit
    \/ perform_git_commit
    \/ HandlePush
    \/ check_master_branch
    \/ get_unpushed_commits
    \/ generate_branch_and_pr
    \/ CheckoutBranch
    \/ PushBranch
    \/ create_pull_request

Spec == Init /\ [][Next]_vars

\* ------------------------------------------- the truncation step on its own
\* The truncation of lines 175-188 applied to every text, under every
\* budget MAX_TOKENS - system_tokens - prompt_tokens from -1 up, and applied
\* again to its own result.
FitInit ==
    /\ pc = "off"
    /\ api_key_set = FALSE
    /\ TaskIdle
    /\ fit_pc = "start"
    /\ fit_in \in {[text |-> t, system_tokens |-> estimate_tokens(system_message),
                    prompt_tokens |-> p, checks |-> c] :
                      t \in {o \in DiffOutputs : ValidUtf8(o)},
                      p \in 0..MAX_TOKENS, c \in BOOLEAN}
    /\ fit_once = [status |-> "none", text |-> <<>>, truncated |-> FALSE, detail |-> ""]
    /\ fit_twice = [status |-> "none", text |-> <<>>, truncated |-> FALSE, detail |-> ""]

FitOnce ==
    /\ fit_pc = "start"
    /\ fit_once' = TruncateDiff(fit_in.text, fit_in.system_tokens, fit_in.prompt_tokens,
                                fit_in.checks)
    /\ fit_pc' = "once"
    /\ UNCHANGED <<fit_in, fit_twice>>
    /\ UNCHANGED taskVars

FitTwice ==
    /\ fit_pc = "once"
    /\ fit_once.status = "ok"
    /\ fit_twice' = TruncateDiff(fit_once.text, fit_in.system_tokens, fit_in.prompt_tokens,
                                 fit_in.checks)
    /\ fit_pc' = "twice"
    /\ UNCHANGED <<fit_in, fit_once>>
    /\ UNCHANGED taskVars

FitNext == FitOnce \/ FitTwice

FitSpec == FitInit /\ [][FitNext]_vars

\* the budget of a truncation input
FitBudget == MAX_TOKENS - fit_in.system_tokens - fit_in.prompt_tokens

\* ================================================================= claims
\* the invocations that change the repository
IsMutation(e) == e.cmd \in {"commit -m", "checkout -b", "push -u origin"}
Commits == {i \in DOMAIN vcs : vcs[i].cmd = "commit -m"}
\* the completion text of a request, when the response carries one
HasText(rq) ==
    /\ rq.response.transport_ok
    /\ rq.response.choices # <<>>
    /\ rq.response.choices[1].has_message
TextOf(rq) == rq.response.choices[1].content

\* C1: in the commit task, when the staged-presence check reports no changes
\* or the staged diff text is empty after trimming, the run has ended with
\* NoStagedChanges and no completion request was issued.
C1_EmptyDiffEndsNoStagedChanges ==
    \A i \in DOMAIN vcs :
        (\/ /\ vcs[i].cmd = "diff --staged --quiet"
            /\ vcs[i].launched
            /\ vcs[i].code = 0
         \/ /\ vcs[i].cmd = "diff --staged"
            /\ vcs[i].launched
            /\ ValidUtf8(vcs[i].stdout)
            /\ Trim(vcs[i].stdout) = <<>>)
        => /\ pc = "done"
           /\ outcome = Fail("NoStagedChanges", "")
           /\ requests = <<>>

C1_Witness ==
    /\ pc = "done"
    /\ outcome.kind = "NoStagedChanges"
    /\ \E i \in DOMAIN vcs : vcs[i].cmd = "diff --staged" /\ vcs[i].stdout = <<" ", " ">>

\* C2: in the commit task, when the model returned a text T that is not
\* empty after trimming and the user accepted the confirmation, the finished
\* run issued exactly one git commit, with the trimmed T as its message; no
\* run issues more than one commit or a commit with another message.
C2_OneCommitWithCompletionText ==
    /\ Cardinality(Commits) <= 1
    /\ \A i \in Commits :
          /\ Len(requests) = 1
          /\ HasText(requests[1])
          /\ vcs[i].arg = Trim(TextOf(requests[1]))
          /\ vcs[i].arg # <<>>
    /\ (pc = "done" /\ \E j \in DOMAIN prompts : prompts[j].answer = "yes")
          => Cardinality(Commits) = 1

C2_Witness ==
    /\ pc = "done"
    /\ outcome = Success
    /\ \E i \in Commits :
          /\ vcs[i].arg = <<"x">>
          /\ TextOf(requests[1]) = <<" ", "x", "\n">>

\* C3: in every task, when the completion is empty after trimming, the task
\* fails with the EmptyCompletion kind and no git mutation is performed.
C3_EmptyCompletionKind ==
    \A k \in DOMAIN requests :
        (HasText(requests[k]) /\ Trim(TextOf(requests[k])) = <<>>)
        => /\ outcome = Fail("EmptyCompletion", "")
           /\ \A i \in DOMAIN vcs : ~IsMutation(vcs[i])

\* C4: every repository mutation is preceded, in the same run, by a user
\* confirmation that was accepted.
C4_MutationAfterAcceptedConfirmation ==
    \A i \in DOMAIN vcs :
        IsMutation(vcs[i])
        => \E j \in DOMAIN prompts : prompts[j].answer = "yes" /\ prompts[j].at < vcs[i].at

\* C5: in the commit task, when the user declines the confirmation, no git
\* commit is issued and the run ends as the non-error cancelled outcome.
C5_DeclineCancelsWithoutCommit ==
    \A j \in DOMAIN prompts :
        prompts[j].answer = "no"
        => /\ Commits = {}
           /\ pc = "done"
           /\ outcome = Success
           /\ Len(reports) = 1
           /\ reports[1].text = "Commit cancelled."

C5_Witness ==
    /\ pc = "done"
    /\ \E j \in DOMAIN prompts : prompts[j].answer = "no"
    /\ commit_message = <<"x", " ", "x">>

\* C6: in the commit task, when the fixed prompt parts alone cost more than
\* MAX_TOKENS, the task fails with a typed error before any completion
\* request; it does not abort.
C6_NegativeBudgetFailsTyped ==
    (budget.ran /\ budget.system_tokens + budget.prompt_tokens > MAX_TOKENS)
    => /\ outcome.status = "err"
       /\ requests = <<>>

C9_TrunkCheckedFirst ==
    task = "push"
    => /\ (vcs # <<>> => vcs[1].cmd = "rev-parse --abbrev-ref HEAD")
       /\ (requests # <<>> => vcs # <<>> /\ vcs[1].at < requests[1].at)
       /\ \A i \in DOMAIN vcs :
             (/\ vcs[i].cmd = "rev-parse --abbrev-ref HEAD"
              /\ vcs[i].launched
              /\ ValidUtf8(vcs[i].stdout)
              /\ Trim(vcs[i].stdout) \notin {<<"master">>, <<"main">>})
             => /\ pc = "done"
                /\ outcome = Fail("GitOperationFailed", "Not on master/main branch")
                /\ requests = <<>>
                /\ Len(vcs) = 1

C9_Witness ==
    /\ task = "push"
    /\ pc = "done"
    /\ vcs # <<>>
    /\ vcs[1].stdout = <<"main", "x", "\n">>

\* C10: every VCS invocation other than the staged-presence check that exits
\* non-zero or does not launch makes the task fail with GitOperationFailed,
\* and nothing of the task runs after it.
C10_FailedInvocationStopsTask ==
    \A i \in DOMAIN vcs :
        (vcs[i].cmd # "diff --staged --quiet" /\ (~vcs[i].launched \/ vcs[i].code # 0))
        => /\ pc = "done"
           /\ outcome.status = "err"
           /\ outcome.kind = "GitOperationFailed"
           /\ vcs[i].at = Now - 1

\* a response that is a failure of the completion call: a transport or API
\* error, no choice, or a choice without a message
CallFailed(rq) == ~HasText(rq)

\* C11: every failure of a completion call ends the task in one and the same
\* typed failure kind (the kind the code gives a failed call, OpenAIError),
\* never in an abort and never in another kind.
C11_OneKindForFailedCalls ==
    \A k \in DOMAIN requests :
        CallFailed(requests[k])
        => /\ pc = "done"
           /\ outcome.status = "err"
           /\ outcome.kind = "OpenAIError"

\* C12: when the API credential variable is absent, the process has ended
\* with EnvVarNotSet before any VCS invocation, completion request or user
\* prompt; no task step runs.
C12_MissingCredentialStopsAtStartup ==
    (~api_key_set /\ pc # "main")
    => /\ pc = "done"
       /\ outcome = Fail("EnvVarNotSet", "OPENAI_API_KEY")
       /\ task = "none"
       /\ vcs = <<>>
       /\ requests = <<>>
       /\ prompts = <<>>
       /\ reports = <<>>

C12_Witness ==
    /\ ~api_key_set
    /\ pc = "done"
    /\ outcome.kind = "EnvVarNotSet"

\* C13: in any single run of a task at most one completion request is
\* issued; a failed or rejected completion is not retried.
C13_AtMostOneRequest ==
    /\ Len(requests) <= 1
    /\ (requests # <<>> /\ (CallFailed(requests[1]) \/ Trim(TextOf(requests[1])) = <<>>))
          => pc = "done"

C13_Witness ==
    /\ pc = "done"
    /\ Len(requests) = 1
    /\ ~requests[1].response.transport_ok
    /\ outcome.kind = "OpenAIError"

\* what "git diff --staged" and "git log -5" printed in this run
StdoutOf(cmd) == vcs[CHOOSE i \in DOMAIN vcs : vcs[i].cmd = cmd].stdout

\* C14: the diff embedded in the commit-task request is the whole staged
\* diff when system + prompt + diff tokens <= MAX_TOKENS, and otherwise the
\* text of exactly its first MAX_TOKENS - system_tokens - prompt_tokens
\* tokens; the instructions and the recent commit subjects stand before it
\* in full.
C14_EmbeddedDiffIsTokenPrefix ==
    \A k \in DOMAIN requests :
        requests[k].task = "commit"
        => LET orig == StdoutOf("diff --staged")
               toks == Encode(orig)
               fixed == estimate_tokens(system_message)
                        + estimate_tokens(prompt(StdoutOf("log -5")))
               head == <<"WRITE", "SPECIFIC">> \o StdoutOf("log -5") \o <<"CHANGES">>
               user == requests[k].user
               embedded == SubSeq(user, Len(head) + 1, Len(user))
           IN /\ Len(user) >= Len(head)
              /\ SubSeq(user, 1, Len(head)) = head
              /\ IF fixed + Len(toks) <= MAX_TOKENS
                 THEN embedded = orig
                 ELSE /\ fixed <= MAX_TOKENS
                      /\ embedded = DecodeBytes(SubSeq(toks, 1, MAX_TOKENS - fixed))
                      /\ Encode(embedded) = SubSeq(toks, 1, MAX_TOKENS - fixed)

C14_Witness ==
    /\ requests # <<>>
    /\ requests[1].task = "commit"
    /\ budget.truncated
    /\ diff = <<" ", "a">>
    /\ StdoutOf("diff --staged") = <<" ", "a", " ">>

\* C15: the failed state is absorbing: once a step of a task has returned an
\* error, no VCS invocation, completion request, user prompt or report
\* follows in that run and the outcome does not change.
C15_FailedIsAbsorbing ==
    [][outcome.status = "err"
       => /\ vcs' = vcs
          /\ requests' = requests
          /\ prompts' = prompts
          /\ reports' = reports
          /\ outcome' = outcome]_vars

C15_Witness ==
    /\ outcome.status = "err"
    /\ outcome.kind = "TokenizerError"
    /\ pc = "done"
    /\ Len(vcs) = 3
    /\ requests = <<>>

\* the estimated token count of the payload of a request
PayloadTokens(rq) == estimate_tokens(rq.system) + estimate_tokens(rq.user)

\* C16: for each task kind the request is issued only after budgeting, so
\* the estimated token count of every issued payload is at most MAX_TOKENS.
C16_PayloadWithinMaxTokens ==
    \A k \in DOMAIN requests : PayloadTokens(requests[k]) <= MAX_TOKENS

\* C17: in the commit task the user message sent is exactly the instruction
\* prompt whose tokens were counted, followed by the (possibly truncated)
\* diff.
C17_SentPromptIsBudgetedPrompt ==
    \A k \in DOMAIN requests :
        requests[k].task = "commit"
        => requests[k].user = prompt(last_commits) \o diff

\* C18: whenever truncation is triggered (system + prompt + diff tokens >
\* MAX_TOKENS) and the fixed cost does not exceed MAX_TOKENS, the truncation
\* length is strictly less than the number of diff tokens, and the slice
\* does not abort.
C18_TruncationLengthInBounds ==
    (/\ fit_pc # "start"
     /\ fit_in.system_tokens + fit_in.prompt_tokens + Len(Encode(fit_in.text)) > MAX_TOKENS
     /\ fit_in.system_tokens + fit_in.prompt_tokens <= MAX_TOKENS)
    => /\ available(fit_in.system_tokens, fit_in.prompt_tokens) < Len(Encode(fit_in.text))
       /\ fit_once.status # "panic"

C18_Witness ==
    /\ fit_pc = "once"
    /\ fit_once.truncated
    /\ FitBudget = 0
    /\ Len(Encode(fit_in.text)) = 1

\* C19: in the push task, when the list of unpushed commits is empty the
\* task has failed with GitOperationFailed with no completion request issued
\* and no branch created or pushed.
C19_NoUnpushedCommitsFails ==
    \A i \in DOMAIN vcs :
        (vcs[i].cmd = "log @{u}.." /\ vcs[i].launched /\ vcs[i].stdout = <<>>)
        => /\ pc = "done"
           /\ outcome = Fail("GitOperationFailed", "No unpushed commits found")
           /\ requests = <<>>
           /\ \A j \in DOMAIN vcs : ~IsMutation(vcs[j])

C19_Witness ==
    /\ pc = "done"
    /\ outcome.detail = "No unpushed commits found"
    /\ Len(vcs) = 2
    /\ vcs[2].code = 0

\* C20: in the push task the branch name passed to "git checkout -b" and to
\* "git push" is not empty and has no leading or trailing whitespace; it is
\* the first line of the trimmed completion.
C20_BranchNameIsCleanFirstLine ==
    \A i \in DOMAIN vcs :
        vcs[i].cmd \in {"checkout -b", "push -u origin"}
        => /\ vcs[i].arg # <<>>
           /\ Head(vcs[i].arg) \notin Whitespace
           /\ vcs[i].arg[Len(vcs[i].arg)] \notin Whitespace
           /\ Len(requests) = 1
           /\ HasText(requests[1])
           /\ Trim(TextOf(requests[1])) # <<>>
           /\ vcs[i].arg = Trim(Head(Lines(Trim(TextOf(requests[1])))))

C20_Witness ==
    /\ \E i \in DOMAIN vcs : vcs[i].cmd = "push -u origin" /\ vcs[i].arg = <<"x">>
    /\ TextOf(requests[1]) = <<"\n", "x", " ">>

====
